---------------------------- MODULE Spec2Model ----------------------------
(***************************************************************************)
(* A model of pythonlib/sample_registry/mapping.py: the registry writer    *)
(* (create), the QIIME writer (create_qiime) with its EAV caster (_cast),  *)
(* the record parser (parse, _tokenize), the format converter              *)
(* (convert_from_qiime) and the validator (validate).                      *)
(*                                                                         *)
(* Text is modelled character by character: a Python str is a sequence of  *)
(* one-character strings, a dict is a function whose DOMAIN is its key     *)
(* set, a list is a sequence.                                              *)
(***************************************************************************)
EXTENDS Integers, Sequences, FiniteSets, TLC

(***************************************************************************)
(* Bounds of the model.                                                    *)
(***************************************************************************)
MaxSamples == 2
MaxTriples == 2
MaxRecords == 2
MaxLines == 2
MaxRecs == 3
MaxCalls == 2

(***************************************************************************)
(* Characters and the str methods the module uses.                         *)
(***************************************************************************)
\* The printable ASCII characters in code point order: 32 .. 95 and 97 .. 126
\* (the grave accent, 96, cannot be written in a string and is left out).
PrintableLow ==
  <<" ", "!", "\"", "#", "$", "%", "&", "'", "(", ")", "*", "+", ",", "-", ".", "/",
    "0", "1", "2", "3", "4", "5", "6", "7", "8", "9", ":", ";", "<", "=", ">", "?",
    "@", "A", "B", "C", "D", "E", "F", "G", "H", "I", "J", "K", "L", "M", "N", "O",
    "P", "Q", "R", "S", "T", "U", "V", "W", "X", "Y", "Z", "[", "\\", "]", "^", "_">>
PrintableHigh ==
  <<"a", "b", "c", "d", "e", "f", "g", "h", "i", "j", "k", "l", "m", "n", "o",
    "p", "q", "r", "s", "t", "u", "v", "w", "x", "y", "z", "{", "|", "}", "~">>

chr(n) == IF n < 96 THEN PrintableLow[n - 31] ELSE PrintableHigh[n - 96]

ord(c) ==
  IF c = "\t" THEN 9
  ELSE IF c = "\n" THEN 10
  ELSE IF c = "\r" THEN 13
  ELSE IF \E i \in DOMAIN PrintableLow : PrintableLow[i] = c
    THEN 31 + (CHOOSE i \in DOMAIN PrintableLow : PrintableLow[i] = c)
    ELSE 96 + (CHOOSE i \in DOMAIN PrintableHigh : PrintableHigh[i] = c)

ascii_uppercase == {chr(n) : n \in 65..90}
ascii_lowercase == {chr(n) : n \in 97..122}
ascii_letters == ascii_lowercase \cup ascii_uppercase
digits == {chr(n) : n \in 48..57}

\* set("..."): the set of the characters of a str.
CharSet(s) == {s[i] : i \in DOMAIN s}

\* The characters str.strip() removes, among those the model writes.
Whitespace == {" ", "\t", "\n", "\r"}

\* str.lower() on ASCII text.
lower(s) ==
  [i \in DOMAIN s |-> IF s[i] \in ascii_uppercase THEN chr(ord(s[i]) + 32) ELSE s[i]]

RECURSIVE lstrip(_, _)
lstrip(s, chars) ==
  IF s # <<>> /\ Head(s) \in chars THEN lstrip(Tail(s), chars) ELSE s

RECURSIVE rstrip(_, _)
rstrip(s, chars) ==
  IF s # <<>> /\ s[Len(s)] \in chars THEN rstrip(SubSeq(s, 1, Len(s) - 1), chars) ELSE s

strip(s) == lstrip(rstrip(s, Whitespace), Whitespace)

startswith(s, c) == s # <<>> /\ Head(s) = c

\* s.split(sep) for a one-character separator: never an empty list.
RECURSIVE split(_, _)
split(s, sep) ==
  IF \E i \in DOMAIN s : s[i] = sep
    THEN LET i == CHOOSE k \in DOMAIN s : s[k] = sep /\ \A j \in 1..(k - 1) : s[j] # sep
         IN  <<SubSeq(s, 1, i - 1)>> \o split(SubSeq(s, i + 1, Len(s)), sep)
    ELSE <<s>>

\* sep.join(xs) for a list xs of str.
RECURSIVE join(_, _)
join(sep, xs) ==
  IF xs = <<>> THEN <<>>
  ELSE IF Len(xs) = 1 THEN xs[1]
  ELSE xs[1] \o sep \o join(sep, Tail(xs))

\* Lexicographic order of str by code point, the order sorted() uses.
RECURSIVE StrLess(_, _)
StrLess(a, b) ==
  IF a = <<>> THEN b # <<>>
  ELSE IF b = <<>> THEN FALSE
  ELSE IF Head(a) = Head(b) THEN StrLess(Tail(a), Tail(b))
  ELSE ord(Head(a)) < ord(Head(b))

\* x in xs, and xs.index(x): the first position holding x.
InList(x, xs) == \E i \in DOMAIN xs : xs[i] = x
index(xs, x) == CHOOSE i \in DOMAIN xs : xs[i] = x /\ \A j \in 1..(i - 1) : xs[j] # x

\* The lines a text stream yields when iterated: each ends with its "\n",
\* except possibly the last.
RECURSIVE SplitLines(_)
SplitLines(text) ==
  IF text = <<>> THEN <<>>
  ELSE IF \E i \in DOMAIN text : text[i] = "\n"
    THEN LET i == CHOOSE k \in DOMAIN text : text[k] = "\n" /\ \A j \in 1..(k - 1) : text[j] # "\n"
         IN  <<SubSeq(text, 1, i)>> \o SplitLines(SubSeq(text, i + 1, Len(text)))
    ELSE <<text>>

\* A dict literal from a set of <<key, value>> pairs with distinct keys.
Dict(pairs) ==
  [k \in {p[1] : p \in pairs} |-> (CHOOSE p \in pairs : p[1] = k)[2]]

\* All lists over S of length at most n.
SeqsUpTo(S, n) == UNION {[1..k -> S] : k \in 0..n}

(***************************************************************************)
(* String literals of the source.                                          *)
(***************************************************************************)
str_sample_name == <<"s", "a", "m", "p", "l", "e", "_", "n", "a", "m", "e">>
str_barcode_sequence == <<"b", "a", "r", "c", "o", "d", "e", "_", "s", "e", "q", "u", "e", "n", "c", "e">>
str_primer_sequence == <<"p", "r", "i", "m", "e", "r", "_", "s", "e", "q", "u", "e", "n", "c", "e">>
str_SampleID == <<"S", "a", "m", "p", "l", "e", "I", "D">>
str_BarcodeSequence == <<"B", "a", "r", "c", "o", "d", "e", "S", "e", "q", "u", "e", "n", "c", "e">>
str_Description == <<"D", "e", "s", "c", "r", "i", "p", "t", "i", "o", "n">>
str_description == <<"d", "e", "s", "c", "r", "i", "p", "t", "i", "o", "n">>
str_DESCRIPTION == <<"D", "E", "S", "C", "R", "I", "P", "T", "I", "O", "N">>
str_NA == <<"N", "A">>
str_plate == <<"p", "l", "a", "t", "e">>
str_age == <<"a", "g", "e">>
str_zero_date == <<"0", "0", "0", "0", "-", "0", "0", "-", "0", "0">>
str_null == <<"n", "u", "l", "l">>
str_Null == <<"N", "u", "l", "l">>
str_na == <<"n", "a">>
str_none == <<"n", "o", "n", "e">>
str_None == <<"N", "o", "n", "e">>
str_Sequencing_date == <<"S", "e", "q", "u", "e", "n", "c", "i", "n", "g", " ", "d", "a", "t", "e", ":", " ">>
str_Region == <<"R", "e", "g", "i", "o", "n", ":", " ">>
str_Platform == <<"P", "l", "a", "t", "f", "o", "r", "m", ":", " ">>
str_Bushman == <<"B", "u", "s", "h", "m", "a", "n", " ", "l", "a", "b", " ", "r", "u", "n", " ", "a", "c", "c", "e", "s", "s", "i", "o", "n", ":", " ">>

(***************************************************************************)
(* Module-level constants of mapping.py.                                   *)
(***************************************************************************)
NAs ==
  {<<>>, str_zero_date, str_null, str_Null, str_NA, str_na, str_none, str_None}

ALLOWED_CHARS ==
  Dict({<<str_sample_name, {".", "_", "-"} \cup ascii_letters \cup digits>>,
        <<str_barcode_sequence, CharSet(<<"A", "G", "C", "T">>)>>,
        <<str_primer_sequence,
          CharSet(<<"A", "G", "C", "T", "R", "Y", "M", "K", "S", "W", "H", "B", "V", "D", "N">>)>>})

SAMPLE_FIELDS == <<str_sample_name, str_barcode_sequence>>

QIIME_FIELDS ==
  << <<str_SampleID, str_sample_name>>,
     <<str_BarcodeSequence, str_barcode_sequence>> >>

(***************************************************************************)
(* State.                                                                  *)
(***************************************************************************)
VARIABLES
  \* create_qiime and _cast
  q_pc,          \* "cast", "returned", "done", or "idle"
  q_samples,     \* the sample descriptors, in order
  annotations,   \* the stream of (sample_acc, field, val) triples
  ai,            \* triples of the stream consumed so far
  fields,        \* _cast: the discovered field names
  rows,          \* _cast: one row per sample
  buff,          \* create_qiime: the text written
  \* create, then parse
  pc,            \* "create", "written", "header", "rows", "done",
                 \* "AssertionError", "StopIteration", or "idle"
  samples,       \* create: the records to write
  column_names,  \* create: the column ordering
  f,             \* create: the text written to the sink
  lines,         \* parse: the lines of its source
  pos,           \* parse: lines consumed so far
  keys,          \* parse: the header keys
  out,           \* parse: the records yielded so far
  \* convert_from_qiime
  c_pc,          \* "loop", "done", "ValueError", or "idle"
  recs0,         \* the records as they were handed in
  recs,          \* the same records, converted in place
  converted,     \* the records yielded so far
  \* validate
  v_pc,          \* "start", "loop", "done", "ValueError", or "idle"
  v_recs,        \* the records the current call has taken
  vi,            \* records checked so far
  sample_names,  \* the names seen
  barcodes,      \* the barcodes seen
  v_calls        \* calls of validate made so far

q_vars == <<q_pc, q_samples, annotations, ai, fields, rows, buff>>
m_vars == <<pc, samples, column_names, f, lines, pos, keys, out>>
c_vars == <<c_pc, recs0, recs, converted>>
v_vars == <<v_pc, v_recs, vi, sample_names, barcodes, v_calls>>
vars == <<q_vars, m_vars, c_vars, v_vars>>

q_idle ==
  /\ q_pc = "idle" /\ q_samples = <<>> /\ annotations = <<>> /\ ai = 0
  /\ fields = <<>> /\ rows = <<>> /\ buff = <<>>
m_idle ==
  /\ pc = "idle" /\ samples = <<>> /\ column_names = <<>> /\ f = <<>>
  /\ lines = <<>> /\ pos = 0 /\ keys = <<>> /\ out = <<>>
c_idle ==
  /\ c_pc = "idle" /\ recs0 = <<>> /\ recs = <<>> /\ converted = <<>>
v_idle ==
  /\ v_pc = "idle" /\ v_recs = <<>> /\ vi = 0 /\ sample_names = {}
  /\ barcodes = {} /\ v_calls = 0

(***************************************************************************)
(* create_qiime and _cast.                                                 *)
(***************************************************************************)
\* The run descriptor create_qiime is handed.
run ==
  [comment |-> <<"r", "u", "n">>, date |-> <<"2", "0", "1", "5">>,
   region |-> <<"V", "1">>, platform |-> <<"4", "5", "4">>,
   formatted_accession |-> <<"C", "M", "R", "7">>]

\* Sample descriptors: name, barcode, primer, accession, formatted_accession.
SampleSet ==
  {[name |-> <<"S", "1">>, barcode |-> <<"A", "G", "C", "T">>, primer |-> <<"G", "T">>,
    accession |-> <<"1">>, formatted_accession |-> <<"C", "M", "S", "1">>],
   [name |-> <<"S", "2">>, barcode |-> <<"T", "T", "T", "T">>, primer |-> <<"G", "T">>,
    accession |-> <<"2">>, formatted_accession |-> <<"C", "M", "S", "2">>]}

\* Annotation triples: for the accessions of the samples and one that no
\* sample has, under fields that differ in case only and spellings of
\* "description".
TripleSet ==
  {[sample_acc |-> a, field |-> fd, val |-> v] :
     a \in {<<"1">>, <<"2">>}, fd \in {<<"F", "o", "o">>, <<"f", "o", "o">>},
     v \in {<<"x">>, <<"y">>}}
  \cup {[sample_acc |-> <<"3">>, field |-> <<"F", "o", "o">>, val |-> <<"z">>]}
  \cup {[sample_acc |-> a, field |-> fd, val |-> <<"z">>] :
          a \in {<<"1">>, <<"2">>},
          fd \in {str_Description, str_DESCRIPTION, str_description}}

InitQiime ==
  /\ q_pc = "cast"
  /\ q_samples \in SeqsUpTo(SampleSet, MaxSamples)
  /\ annotations \in SeqsUpTo(TripleSet, MaxTriples)
  /\ ai = 0
  /\ fields = <<>>
  /\ rows = [i \in DOMAIN q_samples |-> <<>>]
  /\ buff = <<>>
  /\ m_idle /\ c_idle /\ v_idle

\* accessions = [s.accession for s in samples]
accessions == [i \in DOMAIN q_samples |-> q_samples[i].accession]

\* field.lower() in ["description"]
IsDescription_CaseSensitive(field) == field \in {str_description}
IsDescription(field) == lower(field) \in {str_description}

\* The body of the loop for a triple that is kept: a new field adds a column
\* of "NA" to every row, then the cell of the sample takes the value.
CastStore_OwnRowOnly(fs, rs, sample_idx, field, val) ==
  LET fs1 == IF InList(field, fs) THEN fs ELSE Append(fs, field)
      rs1 == IF InList(field, fs) THEN rs
             ELSE [i \in DOMAIN rs |->
                     IF i = sample_idx THEN Append(rs[i], str_NA) ELSE rs[i]]
      field_idx == index(fs1, field)
  IN  [fields |-> fs1,
       rows |-> [rs1 EXCEPT ![sample_idx] = [@ EXCEPT ![field_idx] = val]]]
CastStore_FirstWins(fs, rs, sample_idx, field, val) ==
  LET fs1 == IF InList(field, fs) THEN fs ELSE Append(fs, field)
      rs1 == IF InList(field, fs) THEN rs
             ELSE [i \in DOMAIN rs |-> Append(rs[i], str_NA)]
      field_idx == index(fs1, field)
  IN  [fields |-> fs1,
       rows |-> [rs1 EXCEPT ![sample_idx] =
                   [@ EXCEPT ![field_idx] = IF @ = str_NA THEN val ELSE @]]]
CastStore(fs, rs, sample_idx, field, val) ==
  LET fs1 == IF InList(field, fs) THEN fs ELSE Append(fs, field)
      rs1 == IF InList(field, fs) THEN rs
             ELSE [i \in DOMAIN rs |-> Append(rs[i], str_NA)]
      field_idx == index(fs1, field)
  IN  [fields |-> fs1,
       rows |-> [rs1 EXCEPT ![sample_idx] = [@ EXCEPT ![field_idx] = val]]]

\* One iteration of the loop of _cast over the next triple of the stream.
CastSkipAccession ==
  /\ q_pc = "cast" /\ ai < Len(annotations)
  /\ ~InList(annotations[ai + 1].sample_acc, accessions)
  /\ ai' = ai + 1
  /\ UNCHANGED <<q_pc, q_samples, annotations, fields, rows, buff>>
  /\ UNCHANGED <<m_vars, c_vars, v_vars>>

CastSkipDescription ==
  /\ q_pc = "cast" /\ ai < Len(annotations)
  /\ InList(annotations[ai + 1].sample_acc, accessions)
  /\ IsDescription(annotations[ai + 1].field)
  /\ ai' = ai + 1
  /\ UNCHANGED <<q_pc, q_samples, annotations, fields, rows, buff>>
  /\ UNCHANGED <<m_vars, c_vars, v_vars>>

CastKeep ==
  /\ q_pc = "cast" /\ ai < Len(annotations)
  /\ InList(annotations[ai + 1].sample_acc, accessions)
  /\ ~IsDescription(annotations[ai + 1].field)
  /\ LET t == annotations[ai + 1]
         r == CastStore(fields, rows, index(accessions, t.sample_acc), t.field, t.val)
     IN  fields' = r.fields /\ rows' = r.rows
  /\ ai' = ai + 1
  /\ UNCHANGED <<q_pc, q_samples, annotations, buff>>
  /\ UNCHANGED <<m_vars, c_vars, v_vars>>

\* return fields, rows
CastReturn ==
  /\ q_pc = "cast" /\ ai = Len(annotations)
  /\ q_pc' = "returned"
  /\ UNCHANGED <<q_samples, annotations, ai, fields, rows, buff>>
  /\ UNCHANGED <<m_vars, c_vars, v_vars>>

\* The text create_qiime builds from the caster's result.
QiimeHeader(annotation_fields) ==
  LET qiime_fields == [i \in DOMAIN QIIME_FIELDS |-> QIIME_FIELDS[i][1]]
  IN  <<"#">> \o join(<<"\t">>, qiime_fields \o annotation_fields \o <<str_Description>>)
        \o <<"\n">>

QiimeComments ==
  <<"#">> \o run.comment \o <<"\n">>
  \o <<"#">> \o str_Sequencing_date \o run.date \o <<"\n">>
  \o <<"#">> \o str_Region \o run.region \o <<"\n">>
  \o <<"#">> \o str_Platform \o run.platform \o <<"\n">>
  \o <<"#">> \o str_Bushman \o run.formatted_accession \o <<"\n">>

RECURSIVE QiimeValues(_, _)
QiimeValues(ss, annotation_rows) ==
  IF ss = <<>> \/ annotation_rows = <<>> THEN <<>>
  ELSE LET s == Head(ss)
           sample_row == <<s.name, s.barcode, s.primer>>
           vals == sample_row \o Head(annotation_rows) \o <<s.formatted_accession>>
       IN  join(<<"\t">>, vals) \o <<"\n">> \o QiimeValues(Tail(ss), Tail(annotation_rows))

create_qiime ==
  /\ q_pc = "returned"
  /\ buff' = QiimeHeader(fields) \o QiimeComments \o QiimeValues(q_samples, rows)
  /\ q_pc' = "done"
  /\ UNCHANGED <<q_samples, annotations, ai, fields, rows>>
  /\ UNCHANGED <<m_vars, c_vars, v_vars>>

NextQiime ==
  \/ CastSkipAccession
  \/ CastSkipDescription
  \/ CastKeep
  \/ CastReturn
  \/ create_qiime

SpecQiime == InitQiime /\ [][NextQiime]_vars

(***************************************************************************)
(* Properties of the EAV caster and the QIIME writer.                      *)
(***************************************************************************)
\* Whether the k-th triple of the stream is one the caster is to drop: its
\* accession belongs to no sample, or its field is "description" in any case.
Dropped(k) ==
  \/ \A i \in DOMAIN q_samples : q_samples[i].accession # annotations[k].sample_acc
  \/ lower(annotations[k].field) = str_description

\* The positions of the stream that carry accession acc and field fd.
Writes(acc, fd) ==
  {k \in DOMAIN annotations : annotations[k].sample_acc = acc /\ annotations[k].field = fd}

\* The value the last such triple carries, "NA" when there is none.
LastWrite(acc, fd) ==
  IF Writes(acc, fd) = {} THEN str_NA
  ELSE annotations[CHOOSE k \in Writes(acc, fd) : \A m \in Writes(acc, fd) : m <= k].val

\* Whether sample i is the first of the list with its accession.
FirstWithAccession(i) ==
  \A j \in 1..(i - 1) : q_samples[j].accession # q_samples[i].accession

\* C2: EAV caster alignment. After every processed triple and at the return
\* of _cast there is one row per sample and every row is as long as fields,
\* also the rows of samples that received no annotation.
C2_CasterAlignment ==
  q_pc \in {"cast", "returned", "done"} =>
    /\ Len(rows) = Len(q_samples)
    /\ \A i \in DOMAIN rows : Len(rows[i]) = Len(fields)

\* C2 witness: _cast has returned two columns for two samples, one of which
\* no triple of the stream mentions.
C2_Witness ==
  /\ q_pc = "returned"
  /\ Len(q_samples) = 2 /\ Len(fields) = 2
  /\ \E i \in DOMAIN q_samples :
       /\ \A k \in DOMAIN annotations : annotations[k].sample_acc # q_samples[i].accession
       /\ rows[i] = <<str_NA, str_NA>>

\* C3: EAV caster filtering. A triple for an accession no sample has, or for
\* a field that is "description" in any case, changes neither fields nor
\* rows; no spelling of "description" is ever in fields; every cell that is
\* not "NA" holds the value of a triple that was kept; and a kept triple's
\* field is in fields exactly as spelled, so "Foo" and "foo" are two columns.
C3_CasterFiltering ==
  /\ [][(q_pc = "cast" /\ ai' = ai + 1 /\ Dropped(ai + 1))
          => (fields' = fields /\ rows' = rows)]_vars
  /\ [](\A j \in DOMAIN fields : lower(fields[j]) # str_description)
  /\ [](\A i \in DOMAIN rows : \A j \in DOMAIN rows[i] :
          \/ rows[i][j] = str_NA
          \/ \E k \in 1..ai : ~Dropped(k) /\ annotations[k].val = rows[i][j])
  /\ [](\A k \in 1..ai : ~Dropped(k) => InList(annotations[k].field, fields))

\* C3 witness: _cast has returned after a kept triple, whose one column and
\* value stand, followed by a "Description" triple for the same sample.
C3_Witness ==
  /\ q_pc = "returned"
  /\ Len(annotations) = 2
  /\ ~Dropped(1)
  /\ annotations[2].field = str_Description
  /\ annotations[2].sample_acc = annotations[1].sample_acc
  /\ InList(annotations[2].sample_acc, accessions)
  /\ fields = <<annotations[1].field>>

\* C4 as stated: in the result of _cast the cell of sample i under field f
\* holds the value of the last triple for samples[i].accession and f, and
\* "NA" when there is none.
C4_LastWriteWins_AsStated ==
  q_pc \in {"returned", "done"} =>
    \A i \in DOMAIN q_samples : \A j \in DOMAIN fields :
      /\ j \in DOMAIN rows[i]
      /\ rows[i][j] = LastWrite(q_samples[i].accession, fields[j])

\* C4 as amended: the cell of sample i under field f holds the value of the
\* last triple for samples[i].accession and f, and "NA" when there is none,
\* for the first sample of the list with each accession; a later sample that
\* repeats an accession keeps "NA" in every column.
C4_LastWriteWins ==
  q_pc \in {"returned", "done"} =>
    \A i \in DOMAIN q_samples : \A j \in DOMAIN fields :
      /\ j \in DOMAIN rows[i]
      /\ rows[i][j] = IF FirstWithAccession(i)
                        THEN LastWrite(q_samples[i].accession, fields[j])
                        ELSE str_NA

\* C4 witness: two triples for the same sample and field with different
\* values, the second of which is the one in the cell.
C4_Witness ==
  /\ q_pc = "returned"
  /\ Len(annotations) = 2
  /\ annotations[1].sample_acc = annotations[2].sample_acc
  /\ annotations[1].field = annotations[2].field
  /\ annotations[1].val # annotations[2].val
  /\ \E i \in DOMAIN q_samples :
       /\ q_samples[i].accession = annotations[1].sample_acc
       /\ rows[i] = <<annotations[2].val>>

\* The tab-separated values of a line of text, its line end taken off.
Cells(line) == split(rstrip(line, {"\n"}), "\t")

\* C8: QIIME writer column consistency. The text has a header line, five
\* comment lines and one row per sample, and every sample row has as many
\* tab-separated values as the header, after its "#", has column names.
C8_QiimeColumnConsistency ==
  q_pc = "done" =>
    LET ls == SplitLines(buff)
    IN  /\ Len(ls) = 6 + Len(q_samples)
        /\ startswith(ls[1], "#")
        /\ \A i \in 2..6 : startswith(ls[i], "#")
        /\ \A i \in 1..Len(q_samples) :
             Len(Cells(ls[6 + i])) = Len(Cells(Tail(ls[1])))

(***************************************************************************)
(* create, and parse with _tokenize.                                       *)
(***************************************************************************)
\* Records handed to create: the two of the worked example, records that
\* lack a core field, values that are missing-value tokens, and keys and
\* values that hold a tab, a line end, a "#" or surrounding blanks.
RecordSet ==
  {Dict({<<str_sample_name, <<"S", "1">>>>, <<str_barcode_sequence, <<"A", "G", "C", "T">>>>}),
   Dict({<<str_sample_name, <<"S", "2">>>>, <<str_barcode_sequence, <<"T", "T", "T", "T">>>>, <<str_plate, <<"P", "1">>>>}),
   Dict({<<str_sample_name, <<"S", "1">>>>}),
   Dict({}),
   Dict({<<str_sample_name, <<"S", "2">>>>, <<str_barcode_sequence, <<"N", "A">>>>}),
   Dict({<<str_sample_name, <<>>>>, <<str_barcode_sequence, <<>>>>}),
   Dict({<<str_sample_name, <<"#", "S">>>>, <<str_barcode_sequence, <<"A", "G", "C", "T">>>>}),
   Dict({<<str_sample_name, <<"S", "1">>>>, <<str_plate, <<" ", "P">>>>}),
   Dict({<<str_sample_name, <<"S", "1">>>>, <<str_age, <<"7">>>>, <<str_plate, <<"P", "1">>>>}),
   Dict({<<str_barcode_sequence, <<"A", "G", "C", "T">>>>, <<str_plate, <<"N", "o", "n", "e">>>>}),
   Dict({<<str_sample_name, <<"S", "2">>>>, <<str_plate, <<"P", "1">>>>, <<str_age, <<>>>>}),
   Dict({<<str_sample_name, <<"S", "1">>>>, <<str_barcode_sequence, <<"A", "\t", "G">>>>}),
   Dict({<<str_sample_name, <<"S", "1">>>>, <<<<" ", "k">>, <<"v">>>>}),
   Dict({<<str_sample_name, <<"S", "1">>>>, <<<<>>, <<"v">>>>}),
   Dict({<<str_sample_name, <<"S", "2">>>>, <<str_age, <<"7">>>>, <<<<"Z", "e", "d">>, <<"1">>>>}),
   Dict({<<str_sample_name, <<"S", "1">>>>, <<str_plate, <<"P", "\n", "1">>>>})}

\* First lines and later lines of the files handed to parse directly.
HeaderLines ==
  {<<"a", "\t", "b", "\n">>,
   <<"#", "a", "\t", "b", "\n">>,
   <<"#", "#", "a", "\t", "b", "\n">>,
   <<"a", "\t", "\t", "b", "\n">>,
   <<"a", "\t", "a", "\n">>,
   <<" ", "a", " ", "\t", "b", " ", "\n">>,
   <<"a", "\t", " ", "\n">>,
   <<"a", "\t", "b", "\t", "c", "\n">>,
   <<"#", "\n">>}
DataLines ==
  {<<"x", "\t", "y", "\n">>,
   <<"x", "\n">>,
   <<"x", "\t", "y", "\t", "z", "\t", "w", "\n">>,
   <<"#", "x", "\t", "y", "\n">>,
   <<"\n">>,
   <<" ", "\t", " ", "\n">>,
   <<"N", "A", "\t", "y", "\n">>,
   <<" ", "x", " ", "\t", "y", " ", "\n">>,
   <<" ", "#", "x", "\t", "y", "\n">>,
   <<"x", "\t", "\n">>,
   <<"x", "\t", "y", "\r", "\n">>,
   <<"x", "\t", "y">>,
   <<"x", "\t", "N", "o", "n", "e", "\n">>}

\* Either create is about to be called on some records, its text then being
\* parsed, or parse is about to be called on the lines of some file.
InitMapping ==
  /\ \/ /\ pc = "create"
        /\ samples \in SeqsUpTo(RecordSet, MaxRecords)
        /\ lines = <<>>
     \/ /\ pc = "header"
        /\ samples = <<>>
        /\ lines \in {<<>>} \cup
             {<<h>> \o body : h \in HeaderLines, body \in SeqsUpTo(DataLines, MaxLines)}
  /\ column_names = <<>> /\ f = <<>> /\ pos = 0 /\ keys = <<>> /\ out = <<>>
  /\ q_idle /\ c_idle /\ v_idle

\* sorted(s.keys())
RECURSIVE sorted(_)
sorted(S) ==
  IF S = {} THEN <<>>
  ELSE LET m == CHOOSE x \in S : \A y \in S \ {x} : StrLess(x, y)
       IN  <<m>> \o sorted(S \ {m})

\* for key in ks: if key not in column_names: column_names.append(key)
RECURSIVE AppendNew_NoMembershipTest(_, _)
AppendNew_NoMembershipTest(cols, ks) ==
  IF ks = <<>> THEN cols
  ELSE AppendNew_NoMembershipTest(Append(cols, Head(ks)), Tail(ks))
RECURSIVE AppendNew(_, _)
AppendNew(cols, ks) ==
  IF ks = <<>> THEN cols
  ELSE AppendNew(IF InList(Head(ks), cols) THEN cols ELSE Append(cols, Head(ks)), Tail(ks))

\* The column ordering create computes over all the records.
RECURSIVE ColumnNames(_, _)
ColumnNames(cols, ss) ==
  IF ss = <<>> THEN cols
  ELSE ColumnNames(AppendNew(cols, sorted(DOMAIN Head(ss))), Tail(ss))

\* The row of one record: "NA" in every cell, then the value of each key at
\* the index of the key among the columns.
Row(cols, s) ==
  [j \in DOMAIN cols |->
     IF \E key \in DOMAIN s : index(cols, key) = j
       THEN s[CHOOSE key \in DOMAIN s : index(cols, key) = j]
       ELSE str_NA]

RECURSIVE RowsText(_, _)
RowsText(cols, ss) ==
  IF ss = <<>> THEN <<>>
  ELSE join(<<"\t">>, Row(cols, Head(ss))) \o <<"\n">> \o RowsText(cols, Tail(ss))

create ==
  /\ pc = "create"
  /\ LET cols == ColumnNames(<<str_sample_name, str_barcode_sequence>>, samples)
     IN  /\ column_names' = cols
         /\ f' = join(<<"\t">>, cols) \o <<"\n">> \o RowsText(cols, samples)
  /\ pc' = "written"
  /\ UNCHANGED <<samples, lines, pos, keys, out>>
  /\ UNCHANGED <<q_vars, c_vars, v_vars>>

\* parse is called on the text create wrote, read back line by line.
ParseWritten ==
  /\ pc = "written"
  /\ lines' = SplitLines(f)
  /\ pc' = "header"
  /\ UNCHANGED <<samples, column_names, f, pos, keys, out>>
  /\ UNCHANGED <<q_vars, c_vars, v_vars>>

_tokenize_NoStrip(line) ==
  split(rstrip(line, {"\n", "\r"}), "\t")
_tokenize(line) ==
  LET toks == split(rstrip(line, {"\n", "\r"}), "\t")
  IN  [i \in DOMAIN toks |-> strip(toks[i])]

\* next(f).lstrip("#")
Header_OneMarker(line) == IF startswith(line, "#") THEN Tail(line) ELSE line
Header(line) == lstrip(line, {"#"})

\* dict([(k, v) for k, v in zip(keys, vals) if v not in NAs]): of two pairs
\* with the same key the later one stands.
RecordOf_KeepMissing(ks, vals) ==
  LET n == IF Len(ks) < Len(vals) THEN Len(ks) ELSE Len(vals)
      P == 1..n
  IN  [k \in {ks[i] : i \in P} |->
         vals[CHOOSE i \in P : ks[i] = k /\ \A j \in P : ks[j] = k => j <= i]]
RecordOf(ks, vals) ==
  LET n == IF Len(ks) < Len(vals) THEN Len(ks) ELSE Len(vals)
      P == {i \in 1..n : vals[i] \notin NAs}
  IN  [k \in {ks[i] : i \in P} |->
         vals[CHOOSE i \in P : ks[i] = k /\ \A j \in P : ks[j] = k => j <= i]]

\* The first next() of the generator on a source with no line at all.
ParseNoHeader ==
  /\ pc = "header" /\ lines = <<>>
  /\ pc' = "StopIteration"
  /\ UNCHANGED <<samples, column_names, f, lines, pos, keys, out>>
  /\ UNCHANGED <<q_vars, c_vars, v_vars>>

\* The header line: its keys, and the assertion that none is blank.
ParseHeader ==
  /\ pc = "header" /\ lines # <<>>
  /\ keys' = _tokenize(Header(lines[1]))
  /\ pos' = 1
  /\ pc' = IF \A i \in DOMAIN keys' : keys'[i] # <<>> THEN "rows" ELSE "AssertionError"
  /\ UNCHANGED <<samples, column_names, f, lines, out>>
  /\ UNCHANGED <<q_vars, c_vars, v_vars>>

\* One iteration of the loop over the remaining lines.
ParseSkipComment ==
  /\ pc = "rows" /\ pos < Len(lines)
  /\ startswith(lines[pos + 1], "#")
  /\ pos' = pos + 1
  /\ UNCHANGED <<pc, samples, column_names, f, lines, keys, out>>
  /\ UNCHANGED <<q_vars, c_vars, v_vars>>

ParseSkipBlank ==
  /\ pc = "rows" /\ pos < Len(lines)
  /\ ~startswith(lines[pos + 1], "#")
  /\ strip(lines[pos + 1]) = <<>>
  /\ pos' = pos + 1
  /\ UNCHANGED <<pc, samples, column_names, f, lines, keys, out>>
  /\ UNCHANGED <<q_vars, c_vars, v_vars>>

ParseYield ==
  /\ pc = "rows" /\ pos < Len(lines)
  /\ ~startswith(lines[pos + 1], "#")
  /\ strip(lines[pos + 1]) # <<>>
  /\ out' = Append(out, RecordOf(keys, _tokenize(lines[pos + 1])))
  /\ pos' = pos + 1
  /\ UNCHANGED <<pc, samples, column_names, f, lines, keys>>
  /\ UNCHANGED <<q_vars, c_vars, v_vars>>

ParseDone ==
  /\ pc = "rows" /\ pos = Len(lines)
  /\ pc' = "done"
  /\ UNCHANGED <<samples, column_names, f, lines, pos, keys, out>>
  /\ UNCHANGED <<q_vars, c_vars, v_vars>>

NextMapping ==
  \/ create
  \/ ParseWritten
  \/ ParseNoHeader
  \/ ParseHeader
  \/ ParseSkipComment
  \/ ParseSkipBlank
  \/ ParseYield
  \/ ParseDone

SpecMapping == InitMapping /\ [][NextMapping]_vars

(***************************************************************************)
(* Properties of the registry writer and the record parser.                *)
(***************************************************************************)
\* Every key of every record handed to create.
AllKeys == UNION {DOMAIN samples[i] : i \in DOMAIN samples}

\* The first record that has key k.
FirstSeen(k) ==
  CHOOSE i \in DOMAIN samples :
    k \in DOMAIN samples[i] /\ \A j \in 1..(i - 1) : k \notin DOMAIN samples[j]

\* The cell of record s under column k.
Cell(s, k) == IF k \in DOMAIN s THEN s[k] ELSE str_NA

\* The trimmed tokens of a line: its line end taken off, cut at every tab,
\* each piece without its leading and trailing whitespace.
TrimmedTokens(line) ==
  LET body == rstrip(line, {"\n", "\r"})
      pieces == split(body, "\t")
  IN  [i \in DOMAIN pieces |-> strip(pieces[i])]

\* A record without the cells whose value is a missing-value token.
WithoutMissing(s) == [k \in {x \in DOMAIN s : s[x] \notin NAs} |-> s[k]]

\* Text that a tab-separated line carries unchanged: no tab, no carriage
\* return or line feed in it, no whitespace at either end.
CleanText(s) ==
  /\ \A i \in DOMAIN s : s[i] \notin {"\t", "\n", "\r"}
  /\ strip(s) = s

\* Records whose written rows parse reads as data: keys that are not empty,
\* clean keys and values, a first cell that does not start with "#", and no
\* record that has an empty value under every column of the file.
RoundTripSafe ==
  \A i \in DOMAIN samples :
    /\ \A k \in DOMAIN samples[i] :
         k # <<>> /\ CleanText(k) /\ CleanText(samples[i][k])
    /\ ~startswith(Cell(samples[i], str_sample_name), "#")
    /\ \E k \in AllKeys \cup {str_sample_name, str_barcode_sequence} :
         Cell(samples[i], k) # <<>>

\* C1 as stated: parse applied to the lines written by create yields, in the
\* same order and number, the records without the cells whose value is a
\* missing-value token, for any sequence of records.
C1_RoundTrip_AsStated ==
  (column_names # <<>> /\ pc \in {"done", "AssertionError", "StopIteration"}) =>
    /\ pc = "done"
    /\ out = [i \in DOMAIN samples |-> WithoutMissing(samples[i])]

\* C1 as amended: the same, for records whose keys are not empty, whose keys
\* and values hold no tab, carriage return or line feed and no leading or
\* trailing whitespace, whose sample_name does not start with "#", and none
\* of which has an empty value under every column of the file.
C1_RoundTrip ==
  (column_names # <<>> /\ pc \in {"done", "AssertionError", "StopIteration"}
     /\ RoundTripSafe) =>
    /\ pc = "done"
    /\ out = [i \in DOMAIN samples |-> WithoutMissing(samples[i])]

\* C1 witness: two written records have been read back, the first of which
\* lost a cell that held a missing-value token.
C1_Witness ==
  /\ pc = "done" /\ column_names # <<>> /\ RoundTripSafe
  /\ Len(samples) = 2 /\ Len(out) = 2
  /\ str_barcode_sequence \in DOMAIN samples[1]
  /\ str_barcode_sequence \notin DOMAIN out[1]
  /\ out[2] = samples[2] /\ str_plate \in DOMAIN out[2]

\* C6: registry writer layout. The columns are sample_name, barcode_sequence,
\* then every other key, none repeated, in first-encounter order: by the
\* first record that has the key, and among the keys of one record in sorted
\* order. The text is the tab-joined header line, then one line per record in
\* input order with one cell per column: the value of the record under the
\* column, "NA" where it has none. The records {S1, AGCT} and
\* {S2, TTTT, plate: P1} give the three lines of the example.
C6_WriterLayout ==
  pc \in {"written", "header", "rows", "done", "AssertionError"} /\ column_names # <<>> =>
    /\ Len(column_names) >= 2
    /\ column_names[1] = str_sample_name /\ column_names[2] = str_barcode_sequence
    /\ {column_names[j] : j \in DOMAIN column_names}
         = AllKeys \cup {str_sample_name, str_barcode_sequence}
    /\ \A p, q \in DOMAIN column_names : p # q => column_names[p] # column_names[q]
    /\ \A p, q \in 3..Len(column_names) :
         p < q =>
           \/ FirstSeen(column_names[p]) < FirstSeen(column_names[q])
           \/ /\ FirstSeen(column_names[p]) = FirstSeen(column_names[q])
              /\ StrLess(column_names[p], column_names[q])
    /\ f = join(<<"\n">>,
                <<join(<<"\t">>, column_names)>> \o
                [i \in DOMAIN samples |->
                   join(<<"\t">>, [j \in DOMAIN column_names |->
                                     Cell(samples[i], column_names[j])])])
           \o <<"\n">>
    /\ samples = <<Dict({<<str_sample_name, <<"S", "1">>>>,
                         <<str_barcode_sequence, <<"A", "G", "C", "T">>>>}),
                   Dict({<<str_sample_name, <<"S", "2">>>>,
                         <<str_barcode_sequence, <<"T", "T", "T", "T">>>>,
                         <<str_plate, <<"P", "1">>>>})>>
         => f = str_sample_name \o <<"\t">> \o str_barcode_sequence \o <<"\t">>
                  \o str_plate \o <<"\n">>
                \o <<"S", "1", "\t", "A", "G", "C", "T", "\t", "N", "A", "\n">>
                \o <<"S", "2", "\t", "T", "T", "T", "T", "\t", "P", "1", "\n">>

\* C6 witness: create has written two records of which only the second has
\* the two further keys, so that the first row is filled with "NA" and the
\* further columns stand in sorted order.
C6_Witness ==
  /\ pc = "written"
  /\ Len(samples) = 2
  /\ DOMAIN samples[1] = {str_sample_name, str_barcode_sequence}
  /\ {str_age, str_plate} \subseteq DOMAIN samples[2]
  /\ column_names = <<str_sample_name, str_barcode_sequence, str_age, str_plate>>

\* The lines after the header that parse has consumed and takes for data:
\* those that neither start with "#" nor are blank after trimming.
RECURSIVE DataOf(_)
DataOf(ls) ==
  IF ls = <<>> THEN <<>>
  ELSE IF startswith(Head(ls), "#") \/ strip(Head(ls)) = <<>>
    THEN DataOf(Tail(ls))
    ELSE <<Head(ls)>> \o DataOf(Tail(ls))
ConsumedData == DataOf(SubSeq(lines, 2, pos))

\* The positions of a data line that carry a value: below the number of keys
\* and of tokens, with a token that is no missing-value token.
Present(line) ==
  {i \in DOMAIN keys \cap DOMAIN TrimmedTokens(line) : TrimmedTokens(line)[i] \notin NAs}

\* C9 as stated: parse yields one record per data line, in file order, and
\* each record maps header key k_i to the trimmed i-th token for exactly the
\* positions i that carry a value.
C9_ParserRows_AsStated ==
  pc \in {"rows", "done"} =>
    /\ Len(out) = Len(ConsumedData)
    /\ \A n \in DOMAIN out :
         /\ DOMAIN out[n] = {keys[i] : i \in Present(ConsumedData[n])}
         /\ \A i \in Present(ConsumedData[n]) :
              out[n][keys[i]] = TrimmedTokens(ConsumedData[n])[i]

\* C9 as amended: the same, except that where a header key stands at several
\* positions that carry a value, the record maps it to the token of the last
\* of them.
C9_ParserRows ==
  pc \in {"rows", "done"} =>
    /\ Len(out) = Len(ConsumedData)
    /\ \A n \in DOMAIN out :
         /\ DOMAIN out[n] = {keys[i] : i \in Present(ConsumedData[n])}
         /\ \A i \in Present(ConsumedData[n]) :
              (\A j \in Present(ConsumedData[n]) : keys[j] = keys[i] => j <= i)
                => out[n][keys[i]] = TrimmedTokens(ConsumedData[n])[i]

\* C9 witness: under a header of three keys parse is done with a comment
\* line it skipped and a trimmed row of two tokens, whose record lacks the
\* third key.
C9_Witness ==
  /\ pc = "done" /\ column_names = <<>>
  /\ Len(keys) = 3 /\ Len(lines) = 3
  /\ startswith(lines[2], "#")
  /\ lines[3] = <<" ", "x", " ", "\t", "y", " ", "\n">>
  /\ out = <<Dict({<<keys[1], <<"x">>>>, <<keys[2], <<"y">>>>})>>

\* A line without every "#" it starts with, and without the first one only.
RECURSIVE WithoutMarkers(_)
WithoutMarkers(line) ==
  IF line # <<>> /\ line[1] = "#" THEN WithoutMarkers(SubSeq(line, 2, Len(line))) ELSE line
WithoutOneMarker(line) ==
  IF line # <<>> /\ line[1] = "#" THEN SubSeq(line, 2, Len(line)) ELSE line

\* C10 as stated: the header keys are the trimmed tokens of the first line
\* without a single leading "#"; parse fails when one of them is blank; the
\* header "##a<TAB>b" yields the first key "#a".
C10_ParserHeader_AsStated ==
  (pc \in {"rows", "done", "AssertionError"}) =>
    /\ keys = TrimmedTokens(WithoutOneMarker(lines[1]))
    /\ pc = "AssertionError" <=> \E i \in DOMAIN keys : keys[i] = <<>>
    /\ lines[1] = <<"#", "#", "a", "\t", "b", "\n">> => keys[1] = <<"#", "a">>

\* C10 as amended: the header keys are the trimmed tokens of the first line
\* without every "#" it starts with; parse fails when one of them is blank;
\* the header "##a<TAB>b" yields the first key "a".
C10_ParserHeader ==
  (pc \in {"rows", "done", "AssertionError"}) =>
    /\ keys = TrimmedTokens(WithoutMarkers(lines[1]))
    /\ pc = "AssertionError" <=> \E i \in DOMAIN keys : keys[i] = <<>>
    /\ lines[1] = <<"#", "#", "a", "\t", "b", "\n">> => keys = <<<<"a">>, <<"b">>>>

\* C10 witness: parse has read the header "##a<TAB>b" and goes on to the rows.
C10_Witness ==
  /\ pc = "rows" /\ pos = 1
  /\ lines[1] = <<"#", "#", "a", "\t", "b", "\n">>
  /\ keys = <<<<"a">>, <<"b">>>>

(***************************************************************************)
(* convert_from_qiime.                                                     *)
(***************************************************************************)
\* del r[k] and r[k] = v on a dict.
DictRemove(r, k) == [x \in DOMAIN r \ {k} |-> r[x]]
DictSet(r, k, v) == [x \in DOMAIN r \cup {k} |-> IF x = k THEN v ELSE r[x]]

\* Records handed to the converter: every combination of the two QIIME
\* identity fields and the two core fields, and records with a Description
\* and a further annotation.
ConvertRecordSet ==
  {Dict(ps) :
     ps \in SUBSET {<<str_SampleID, <<"S", "1">>>>,
                    <<str_BarcodeSequence, <<"A", "G", "C", "T">>>>,
                    <<str_sample_name, <<"S", "9">>>>,
                    <<str_barcode_sequence, <<"T", "T", "T", "T">>>>}}
  \cup {Dict(ps \cup {<<str_Description, <<"j", "u", "n", "k">>>>, <<str_plate, <<"P", "1">>>>}) :
          ps \in SUBSET {<<str_SampleID, <<"S", "1">>>>,
                         <<str_BarcodeSequence, <<"A", "G", "C", "T">>>>}}
  \cup {Dict({<<str_Description, <<"j", "u", "n", "k">>>>, <<str_sample_name, <<"S", "9">>>>})}

InitConvert ==
  /\ c_pc = "loop"
  /\ recs0 \in SeqsUpTo(ConvertRecordSet, MaxRecs)
  /\ recs = recs0
  /\ converted = <<>>
  /\ q_idle /\ m_idle /\ v_idle

\* The loop over QIIME_FIELDS on one record: whether it raised, and the
\* record as the loop left it.
RECURSIVE RenameFields_RaiseOnlyOnOverwrite(_, _)
RenameFields_RaiseOnlyOnOverwrite(r, pairs) ==
  IF pairs = <<>> THEN [raised |-> FALSE, rec |-> r]
  ELSE LET qiime_field == Head(pairs)[1]
           core_field == Head(pairs)[2]
       IN  IF core_field \in DOMAIN r /\ qiime_field \in DOMAIN r
             THEN [raised |-> TRUE, rec |-> r]
             ELSE RenameFields_RaiseOnlyOnOverwrite(
                    IF qiime_field \in DOMAIN r
                      THEN DictSet(DictRemove(r, qiime_field), core_field, r[qiime_field])
                      ELSE r,
                    Tail(pairs))
RECURSIVE RenameFields(_, _)
RenameFields(r, pairs) ==
  IF pairs = <<>> THEN [raised |-> FALSE, rec |-> r]
  ELSE LET qiime_field == Head(pairs)[1]
           core_field == Head(pairs)[2]
       IN  IF core_field \in DOMAIN r
             THEN [raised |-> TRUE, rec |-> r]
             ELSE RenameFields(
                    IF qiime_field \in DOMAIN r
                      THEN DictSet(DictRemove(r, qiime_field), core_field, r[qiime_field])
                      ELSE r,
                    Tail(pairs))

\* The body of the loop over recs on one record, which it changes in place.
ConvertRecord(r) ==
  RenameFields(IF str_Description \in DOMAIN r THEN DictRemove(r, str_Description) ELSE r,
               QIIME_FIELDS)

\* One next() of the generator: the next record is converted and yielded,
\* or the conversion raises, or the records are exhausted.
ConvertYield ==
  /\ c_pc = "loop" /\ Len(converted) < Len(recs)
  /\ LET n == Len(converted) + 1
         res == ConvertRecord(recs[n])
     IN  /\ ~res.raised
         /\ recs' = [recs EXCEPT ![n] = res.rec]
         /\ converted' = Append(converted, res.rec)
  /\ UNCHANGED <<c_pc, recs0>>
  /\ UNCHANGED <<q_vars, m_vars, v_vars>>

ConvertRaise ==
  /\ c_pc = "loop" /\ Len(converted) < Len(recs)
  /\ LET n == Len(converted) + 1
         res == ConvertRecord(recs[n])
     IN  /\ res.raised
         /\ recs' = [recs EXCEPT ![n] = res.rec]
  /\ c_pc' = "ValueError"
  /\ UNCHANGED <<recs0, converted>>
  /\ UNCHANGED <<q_vars, m_vars, v_vars>>

ConvertDone ==
  /\ c_pc = "loop" /\ Len(converted) = Len(recs)
  /\ c_pc' = "done"
  /\ UNCHANGED <<recs0, recs, converted>>
  /\ UNCHANGED <<q_vars, m_vars, v_vars>>

NextConvert ==
  \/ ConvertYield
  \/ ConvertRaise
  \/ ConvertDone

SpecConvert == InitConvert /\ [][NextConvert]_vars

\* Whether a record already has a core field.
HasCoreField(r) == str_sample_name \in DOMAIN r \/ str_barcode_sequence \in DOMAIN r

\* The converted form of a record without core fields: Description, SampleID
\* and BarcodeSequence gone, the values of the latter two under sample_name
\* and barcode_sequence, every other pair as it was.
Renamed(r) ==
  [k \in (DOMAIN r \ {str_Description, str_SampleID, str_BarcodeSequence})
         \cup (IF str_SampleID \in DOMAIN r THEN {str_sample_name} ELSE {})
         \cup (IF str_BarcodeSequence \in DOMAIN r THEN {str_barcode_sequence} ELSE {})
     |-> IF k = str_sample_name THEN r[str_SampleID]
         ELSE IF k = str_barcode_sequence THEN r[str_BarcodeSequence]
         ELSE r[k]]

\* C7: format converter. Every record yielded so far came, in input order,
\* from a record without core fields and is its converted form; a failure
\* is at a record that already had a core field, whose core values still
\* stand; and the converter ends without a failure only with one record
\* yielded per input record.
C7_Converter ==
  c_pc \in {"loop", "done", "ValueError"} =>
    /\ Len(converted) <= Len(recs0)
    /\ \A n \in DOMAIN converted :
         ~HasCoreField(recs0[n]) /\ converted[n] = Renamed(recs0[n])
    /\ c_pc = "done" => Len(converted) = Len(recs0)
    /\ c_pc = "ValueError" =>
         LET n == Len(converted) + 1
         IN  /\ n \in DOMAIN recs0
             /\ HasCoreField(recs0[n])
             /\ \A k \in {str_sample_name, str_barcode_sequence} \cap DOMAIN recs0[n] :
                  k \in DOMAIN recs[n] /\ recs[n][k] = recs0[n][k]

\* C7 witness: a record with SampleID, BarcodeSequence, Description and an
\* annotation has been converted and yielded, and the converter then failed
\* on the record {SampleID, sample_name}.
C7_Witness ==
  /\ c_pc = "ValueError"
  /\ Len(converted) = 1
  /\ DOMAIN recs0[1] = {str_SampleID, str_BarcodeSequence, str_Description, str_plate}
  /\ DOMAIN converted[1] = {str_sample_name, str_barcode_sequence, str_plate}
  /\ DOMAIN recs0[2] = {str_SampleID, str_sample_name}

(***************************************************************************)
(* validate.                                                               *)
(***************************************************************************)
\* Records handed to the validator: with and without each constrained
\* field, and values with a character outside the allowed set.
ValidateRecordSet ==
  {Dict(a \cup b \cup c) :
     a \in {{}, {<<str_sample_name, <<"S", "1">>>>}, {<<str_sample_name, <<"S", "2">>>>}},
     b \in {{}, {<<str_barcode_sequence, <<"A", "G", "C", "T">>>>},
            {<<str_barcode_sequence, <<"T", "T", "T", "T">>>>}},
     c \in {{}, {<<str_primer_sequence, <<"R", "Y", "N">>>>}}}
  \cup {Dict({<<str_sample_name, <<"S", "#">>>>, <<str_barcode_sequence, <<"A", "G", "C", "T">>>>}),
        Dict({<<str_sample_name, <<"S", "1">>>>, <<str_barcode_sequence, <<"A", "G", "C", "N">>>>}),
        Dict({<<str_sample_name, <<"S", "2">>>>, <<str_barcode_sequence, <<>>>>}),
        Dict({<<str_sample_name, <<"S", "1">>>>, <<str_barcode_sequence, <<"A", "G", "C", "T">>>>,
              <<str_primer_sequence, <<"A", "G", "X">>>>}),
        Dict({<<str_sample_name, <<"S", "2">>>>, <<str_barcode_sequence, <<"T", "T", "T", "T">>>>,
              <<str_plate, <<" ", "#">>>>})}

InitValidate ==
  /\ v_pc = "start" /\ v_recs = <<>> /\ vi = 0
  /\ sample_names = {} /\ barcodes = {} /\ v_calls = 0
  /\ q_idle /\ m_idle /\ c_idle

\* The checks of the loop body on record r, in the order of the code, given
\* the names and barcodes seen before it.
Check_NoBarcodeDefault(r, names, bcs) ==
  IF \E key \in DOMAIN ALLOWED_CHARS \cap DOMAIN r :
       \E i \in DOMAIN r[key] : r[key][i] \notin ALLOWED_CHARS[key]
    THEN "Illegal characters"
  ELSE IF str_sample_name \notin DOMAIN r THEN "No sample_name"
  ELSE IF r[str_sample_name] \in names THEN "Duplicate sample_name"
  ELSE IF str_barcode_sequence \in DOMAIN r /\ r[str_barcode_sequence] \in bcs
    THEN "Duplicate barcode"
  ELSE "ok"
Check(r, names, bcs) ==
  IF \E key \in DOMAIN ALLOWED_CHARS \cap DOMAIN r :
       \E i \in DOMAIN r[key] : r[key][i] \notin ALLOWED_CHARS[key]
    THEN "Illegal characters"
  ELSE IF str_sample_name \notin DOMAIN r THEN "No sample_name"
  ELSE IF r[str_sample_name] \in names THEN "Duplicate sample_name"
  ELSE IF (IF str_barcode_sequence \in DOMAIN r THEN r[str_barcode_sequence] ELSE <<>>) \in bcs
    THEN "Duplicate barcode"
  ELSE "ok"

\* A call of validate on an iterable of records: its two sets are new and
\* empty. v_recs holds the records the loop has taken from the iterable.
validate ==
  /\ v_pc \in {"start", "done", "ValueError"} /\ v_calls < MaxCalls
  /\ v_recs' = <<>>
  /\ vi' = 0 /\ sample_names' = {} /\ barcodes' = {}
  /\ v_pc' = "loop" /\ v_calls' = v_calls + 1
  /\ UNCHANGED <<q_vars, m_vars, c_vars>>

\* One iteration of the loop on the next record of the iterable: the record
\* passes and its name and barcode are added to the sets, or a check raises.
ValidateAccept ==
  /\ v_pc = "loop" /\ vi < MaxRecs
  /\ \E r \in ValidateRecordSet :
       /\ Check(r, sample_names, barcodes) = "ok"
       /\ v_recs' = Append(v_recs, r)
       /\ sample_names' = sample_names \cup {r[str_sample_name]}
       /\ barcodes' = barcodes \cup
            {IF str_barcode_sequence \in DOMAIN r THEN r[str_barcode_sequence] ELSE <<>>}
  /\ vi' = vi + 1
  /\ UNCHANGED <<v_pc, v_calls>>
  /\ UNCHANGED <<q_vars, m_vars, c_vars>>

ValidateRaise ==
  /\ v_pc = "loop" /\ vi < MaxRecs
  /\ \E r \in ValidateRecordSet :
       /\ Check(r, sample_names, barcodes) # "ok"
       /\ v_recs' = Append(v_recs, r)
       /\ sample_names' = IF Check(r, sample_names, barcodes) = "Duplicate barcode"
                            THEN sample_names \cup {r[str_sample_name]}
                            ELSE sample_names
  /\ v_pc' = "ValueError"
  /\ UNCHANGED <<vi, barcodes, v_calls>>
  /\ UNCHANGED <<q_vars, m_vars, c_vars>>

\* The iterable is exhausted: validate returns.
ValidateReturn ==
  /\ v_pc = "loop"
  /\ v_pc' = "done"
  /\ UNCHANGED <<v_recs, vi, sample_names, barcodes, v_calls>>
  /\ UNCHANGED <<q_vars, m_vars, c_vars>>

NextValidate ==
  \/ validate
  \/ ValidateAccept
  \/ ValidateRaise
  \/ ValidateReturn

SpecValidate == InitValidate /\ [][NextValidate]_vars

\* The barcode of a record, an absent one counted as the empty string.
BarcodeOrEmpty(r) ==
  IF str_barcode_sequence \in DOMAIN r THEN r[str_barcode_sequence] ELSE <<>>

\* Whether a sequence of records is valid as a whole.
Valid(rs) ==
  /\ \A i \in DOMAIN rs : str_sample_name \in DOMAIN rs[i]
  /\ \A i \in DOMAIN rs :
       \A key \in {str_sample_name, str_barcode_sequence, str_primer_sequence} \cap DOMAIN rs[i] :
         \A n \in DOMAIN rs[i][key] : rs[i][key][n] \in ALLOWED_CHARS[key]
  /\ \A i, j \in DOMAIN rs :
       i # j /\ str_sample_name \in DOMAIN rs[i] /\ str_sample_name \in DOMAIN rs[j]
         => rs[i][str_sample_name] # rs[j][str_sample_name]
  /\ \A i, j \in DOMAIN rs : i # j => BarcodeOrEmpty(rs[i]) # BarcodeOrEmpty(rs[j])

\* C5: validate completes without raising if and only if the records of the
\* call are valid as a whole: it returns only when all the records it was
\* handed are valid together, it raises only on records that are not (and
\* that no further record could make valid), the barcode "AGCN" never
\* passes, and every call starts with both of its sets empty.
C5_Validate ==
  /\ v_pc = "done" => Valid(v_recs)
  /\ v_pc = "ValueError" => ~Valid(v_recs)
  /\ (v_pc = "done" /\ Len(v_recs) >= 1) =>
       \A i \in DOMAIN v_recs :
         BarcodeOrEmpty(v_recs[i]) # <<"A", "G", "C", "N">>
  /\ (v_pc = "loop" /\ vi = 0) => (sample_names = {} /\ barcodes = {})

\* C5 witness: a second call of validate has raised on the second of two
\* records with different names that both lack a barcode.
C5_Witness ==
  /\ v_calls = 2 /\ v_pc = "ValueError"
  /\ Len(v_recs) = 2 /\ vi = 1
  /\ barcodes = {<<>>}
  /\ DOMAIN v_recs[1] = {str_sample_name}
  /\ DOMAIN v_recs[2] = {str_sample_name}
  /\ v_recs[1] # v_recs[2]

(***************************************************************************)
(* The module as a whole: any one of the operations, on any of its inputs. *)
(***************************************************************************)
Init == InitQiime \/ InitMapping \/ InitConvert \/ InitValidate

Next == NextQiime \/ NextMapping \/ NextConvert \/ NextValidate

Spec == Init /\ [][Next]_vars
=============================================================================
